---- MODULE Spec2Model ----
(***************************************************************************)
(* Model of the trade-splitting utilities of the token-swap program        *)
(* (token-swap/program/src/utils.rs): interpolation (the quantizer),       *)
(* calculate_swap_return (the quote-matrix builder) and find_distribution  *)
(* (the dynamic program and its backpointer walk).                         *)
(*                                                                         *)
(* Arrays keep the 0-based indices of the Rust code: a Vec of length n is  *)
(* a function with domain 0..n-1.  A Vec that is only pushed to, or only   *)
(* iterated in order, is a sequence.  Integer widths are scaled down (see  *)
(* U64_BITS, MIN_VALUE) so that the overflow and the sentinel cases are    *)
(* reachable by enumeration.                                               *)
(***************************************************************************)
EXTENDS Integers, Sequences, FiniteSets, TLC

\* ---------------------------------------------------------------- bounds
MaxDex == 2
MaxPartition == 3
MaxQuote == 2
U64_BITS == 4
MaxLevels == 2
MaxCells == 6
MaxAmountIn == 3
MaxTrade == 3
MaxByte == 2
PUBKEY_BYTES == 1
MaxSwaps == 2
MaxIx == 3

\* ------------------------------------------------------------- constants
\* utils.rs:7  MIN_VALUE = -(10^36) in i128; kept as a value far below any
\* sum of quotes of the bounded model (|quotes| <= MaxQuote, <= 4 venues).
MIN_VALUE == -1000

RECURSIVE Pow2(_)
Pow2(n) == IF n = 0 THEN 1 ELSE 2 * Pow2(n - 1)

\* u64::MAX at the model's word width
U64_MAX == Pow2(U64_BITS) - 1

\* the range of i128 (utils.rs:7, 59), at the scale of MIN_VALUE:
\* 2^127 is about 170.141 times 10^36
I128_MAX == 170141
I128_MIN == -170141

VARIABLES
    pc,                     \* position of the running call
    partition,              \* argument of interpolation / find_distribution
    amounts,                \* find_distribution: the value matrix argument
    answer, parent,         \* find_distribution: the DP tables
    i, j,                   \* loop counters
    distribution, left, dex,\* find_distribution: the backpointer walk
    filled,                 \* find_distribution: the <<dex, column>> cells of
                            \* parent the two fill loops have assigned
    in_amount, levels,      \* interpolation: argument and collected Vec
    in_amounts,             \* calculate_swap_return: argument
    source_account_amount, dest_account_amount,  \* its mut parameters
    reserves_in,            \* the reserves as passed by the caller
    result,                 \* calculate_swap_return: collected Vec
    quoted,                 \* the reserves handed to swap_curve().swap, per level
    quotes,                 \* step-count comparison: each venue's quote of an
                            \* input amount, fixed over the comparison
    partition2,             \* the larger of the two step counts compared
    level_sets,             \* the levels of interpolation for both step counts
    value_matrices,         \* the value matrix for both step counts
    optimum,                \* the best total of each value matrix
    swap_info,              \* escrow state: the EscrowV1 handed to pack
    packed,                 \* escrow state: the byte buffer (account data)
    unpacked,               \* escrow state: the result of EscrowVersion::unpack
    oo_input,               \* OOSwapInstruction::unpack: input
    tag,                    \* OOSwapInstruction::unpack: tag
    swap_info_len,          \* OOSwapInstruction::unpack: swap_info_len
    rest,                   \* OOSwapInstruction::unpack: the outer rest
    size,                   \* OOSwapInstruction::unpack: size
    data,                   \* OOSwapInstruction::unpack: data
    instruction,            \* OOSwapInstruction::unpack: what it returns
    escrow_info,            \* escrow processor: the escrow account
    program_address,        \* escrow processor: find_program_address of it
    ix_result,              \* escrow processor: the last instruction's result
    written,                \* escrow processor: the first EscrowV1 stored
    ix_count,               \* escrow processor: instructions processed
    account_infos,          \* process_swap: accounts
    swaps_invoked,          \* process_swap: the instructions invoked so far
    swap_result             \* process_swap: what it returns

vars == <<pc, partition, amounts, answer, parent, i, j, distribution, left,
          dex, filled, in_amount, levels, in_amounts, source_account_amount,
          dest_account_amount, reserves_in, result, quoted, quotes,
          partition2, level_sets, value_matrices, optimum, swap_info,
          packed, unpacked, oo_input, tag, swap_info_len, rest, size, data,
          instruction, escrow_info, program_address, ix_result, written,
          ix_count, account_infos, swaps_invoked, swap_result>>

fdVars == <<amounts, answer, parent, distribution, left, dex, filled>>
ipVars == <<in_amount, levels>>
csVars == <<in_amounts, source_account_amount, dest_account_amount,
            reserves_in, result, quoted>>

moVars == <<quotes, partition2, level_sets, value_matrices, optimum>>
esVars == <<swap_info, packed, unpacked>>
ooVars == <<oo_input, tag, swap_info_len, rest, size, data, instruction>>
epVars == <<escrow_info, program_address, ix_result, written, ix_count>>
psVars == <<account_infos, swaps_invoked, swap_result>>
xVars == <<moVars, esVars, ooVars, epVars, psVars>>

\* values of the variables of a function that is not the one being called
IdleFD == /\ amounts = <<>> /\ answer = <<>> /\ parent = <<>>
          /\ distribution = <<>> /\ left = 0 /\ dex = 0 /\ filled = {}
IdleIP == /\ in_amount = 0 /\ levels = <<>>
IdleCS == /\ in_amounts = <<>> /\ source_account_amount = 0
          /\ dest_account_amount = 0 /\ reserves_in = <<>>
          /\ result = <<>> /\ quoted = <<>>

IdleMO == /\ quotes = <<>> /\ partition2 = 0 /\ level_sets = <<>>
          /\ value_matrices = <<>> /\ optimum = <<>>
IdleES == /\ swap_info = <<>> /\ packed = <<>> /\ unpacked = <<>>
IdleOO == /\ oo_input = <<>> /\ tag = 0 /\ swap_info_len = 0 /\ rest = <<>>
          /\ size = 0 /\ data = <<>> /\ instruction = <<>>
IdleEP == /\ escrow_info = <<>> /\ program_address = <<>> /\ ix_result = <<>>
          /\ written = <<>> /\ ix_count = 0
IdlePS == /\ account_infos = <<>> /\ swaps_invoked = <<>> /\ swap_result = <<>>
IdleX == IdleMO /\ IdleES /\ IdleOO /\ IdleEP /\ IdlePS

\* Option::None of a u64 or of a quote (both are never negative)
None == -1

\* =====================================================================
\* interpolation (utils.rs:43-54)
\* =====================================================================

\* slips of the multiplication: a product that wraps, one that saturates
wrapping_mul(a, b) == (a * b) % (U64_MAX + 1)
saturating_mul(a, b) == IF a * b > U64_MAX THEN U64_MAX ELSE a * b

\* u64::checked_mul (utils.rs:48)
checked_mul(a, b) == IF a * b > U64_MAX THEN None ELSE a * b

\* a slip of the division: the divisor is one step too large
checked_div_next(a, b) == a \div (b + 1)

\* u64::checked_div (utils.rs:50)
checked_div(a, b) == IF b = 0 THEN None ELSE a \div b

\* interpolation as a function of its arguments (utils.rs:43-54): the Vec
\* collected from the closure over 0..partition, or a panic
RECURSIVE InterpolationFrom(_, _, _, _)
InterpolationFrom(T, P, n, acc) ==
    IF ~(n < P) THEN [ok |-> TRUE, levels |-> acc]
    ELSE IF checked_mul(T, n + 1) = None
            \/ checked_div(checked_mul(T, n + 1), P) = None
         THEN [ok |-> FALSE, levels |-> acc]
         ELSE InterpolationFrom(T, P, n + 1,
                  Append(acc, checked_div(checked_mul(T, n + 1), P)))

interpolation(T, P) == InterpolationFrom(T, P, 0, <<>>)

InitIP ==
    /\ pc = "ip_loop"
    /\ in_amount \in 0 .. U64_MAX
    /\ partition \in 0 .. MaxPartition
    /\ i = 0 /\ j = 0
    /\ levels = <<>>
    /\ IdleFD /\ IdleCS /\ IdleX

\* utils.rs:46-52: the closure on the next i of 0..partition; the product
\* fits, and the quotient is unwrapped
IpLevel ==
    /\ pc = "ip_loop"
    /\ i < partition
    /\ checked_mul(in_amount, i + 1) # None
    /\ LET q == checked_div(checked_mul(in_amount, i + 1), partition)
       IN  IF q = None
              THEN pc' = "ip_panic_unwrap" /\ UNCHANGED <<levels, i>>
              ELSE pc' = pc /\ levels' = Append(levels, q) /\ i' = i + 1
    /\ UNCHANGED <<partition, j, in_amount>>
    /\ UNCHANGED <<fdVars, csVars, xVars>>

\* utils.rs:49: expect("in_amount * i failed") on a product that does not fit
IpMulPanic ==
    /\ pc = "ip_loop"
    /\ i < partition
    /\ checked_mul(in_amount, i + 1) = None
    /\ pc' = "ip_panic_mul"
    /\ UNCHANGED <<partition, i, j, in_amount, levels>>
    /\ UNCHANGED <<fdVars, csVars, xVars>>

\* utils.rs:53: the range is exhausted, the Vec is returned
IpReturn ==
    /\ pc = "ip_loop"
    /\ ~(i < partition)
    /\ pc' = "ip_done"
    /\ UNCHANGED <<partition, i, j, in_amount, levels>>
    /\ UNCHANGED <<fdVars, csVars, xVars>>

NextIP == IpLevel \/ IpMulPanic \/ IpReturn

SpecIP == InitIP /\ [][NextIP]_vars

\* C4: for T > 0 and P >= 1 on which interpolation returns, the result has
\* length P, level i is floor(T*(i+1)/P), the levels are non-decreasing and
\* the last one is T.
C4_Levels ==
    (pc = "ip_done" /\ in_amount > 0 /\ partition >= 1)
        => /\ Len(levels) = partition
           /\ \A n \in 0 .. partition - 1 :
                 levels[n + 1] = (in_amount * (n + 1)) \div partition
           /\ \A n \in 1 .. partition - 1 : levels[n] <= levels[n + 1]
           /\ levels[partition] = in_amount

C4_Witness ==
    /\ pc = "ip_done" /\ in_amount > 0 /\ partition >= 2
    /\ levels[1] < levels[partition]
    /\ in_amount % partition # 0

\* some product T*(i+1), 0 <= i < P, does not fit the working width
ProductOverflows ==
    \E n \in 0 .. partition - 1 : in_amount * (n + 1) > U64_MAX

\* C5: interpolation never returns (or collects) a level computed from a
\* wrapped product; it fails with the overflow panic whenever a product
\* T*(i+1) does not fit, and fails in that case only.
C5_CheckedProduct ==
    /\ \A n \in 1 .. Len(levels) :
          levels[n] = (in_amount * n) \div partition
    /\ pc = "ip_done" => ~ProductOverflows
    /\ pc \in {"ip_panic_mul", "ip_panic_unwrap"}
          => pc = "ip_panic_mul" /\ ProductOverflows

C5_Witness ==
    /\ pc = "ip_panic_mul" /\ Len(levels) >= 1 /\ ProductOverflows

\* C6: a step count of 0 is rejected: neither interpolation nor
\* find_distribution returns a normal result when partition is 0.
C6_ZeroStepCountRejected ==
    partition = 0 => pc \notin {"ip_done", "fd_done"}

\* =====================================================================
\* calculate_swap_return (utils.rs:9-36)
\* =====================================================================

\* token_swap.swap_curve().swap(amount_in, source, dest, ..): the curve is
\* not part of these sources.  It is a pure quote against the reserves it is
\* handed: the constant-product output, rejected (None) when no tokens
\* would be traded (the ZeroTradingTokens of utils.rs:28).
swap(amount_in, source, dest) ==
    IF amount_in = 0 \/ source + amount_in = 0 THEN None
    ELSE LET out == (dest * amount_in) \div (source + amount_in)
         IN  IF out = 0 THEN None ELSE out

\* u64 subtraction and addition of utils.rs:30-31: whether they fit
SubFits(a, b) == a - b >= 0
AddFits(a, b) == a + b <= U64_MAX

\* their value in a build without overflow checks (two's complement wrap)
WrapU64(x) == x % (U64_MAX + 1)

InitCS ==
    /\ pc = "cs_loop"
    /\ \E n \in 0 .. MaxLevels : in_amounts \in [1 .. n -> 0 .. MaxAmountIn]
    /\ source_account_amount \in 0 .. U64_MAX
    /\ dest_account_amount \in 0 .. U64_MAX
    /\ reserves_in = [source |-> source_account_amount,
                      dest |-> dest_account_amount]
    /\ result = <<>> /\ quoted = <<>>
    /\ partition = 0 /\ i = 0 /\ j = 0
    /\ IdleFD /\ IdleIP /\ IdleX

\* the next element of in_amounts and the arguments swap is called with
\* (utils.rs:18, 22-24)
amount_in == in_amounts[Len(result) + 1]
SwapArgs == [amount_in |-> amount_in, source |-> source_account_amount,
             dest |-> dest_account_amount]

\* utils.rs:18-33: the closure on the next level; the curve quotes it, the
\* running reserves are updated (wrapping, when they do not fit and the
\* build does not check overflow) and the quote is collected
CsLevel ==
    /\ pc = "cs_loop"
    /\ Len(result) < Len(in_amounts)
    /\ swap(amount_in, source_account_amount, dest_account_amount) # None
    /\ quoted' = Append(quoted, SwapArgs)
    /\ source_account_amount' = WrapU64(source_account_amount - amount_in)
    /\ dest_account_amount' = WrapU64(dest_account_amount + amount_in)
    /\ result' = Append(result,
                    swap(amount_in, source_account_amount, dest_account_amount))
    /\ UNCHANGED <<pc, partition, i, j, in_amounts, reserves_in>>
    /\ UNCHANGED <<fdVars, ipVars, xVars>>

\* utils.rs:28-29: the curve returns None and the unwrap panics
CsUnwrapPanic ==
    /\ pc = "cs_loop"
    /\ Len(result) < Len(in_amounts)
    /\ swap(amount_in, source_account_amount, dest_account_amount) = None
    /\ quoted' = Append(quoted, SwapArgs)
    /\ pc' = "cs_panic_unwrap"
    /\ UNCHANGED <<partition, i, j, in_amounts, source_account_amount,
                   dest_account_amount, reserves_in, result>>
    /\ UNCHANGED <<fdVars, ipVars, xVars>>

\* utils.rs:30-31 in a build with overflow checks: the update of the
\* running reserves does not fit and panics
CsArithPanic ==
    /\ pc = "cs_loop"
    /\ Len(result) < Len(in_amounts)
    /\ swap(amount_in, source_account_amount, dest_account_amount) # None
    /\ \/ ~SubFits(source_account_amount, amount_in)
       \/ ~AddFits(dest_account_amount, amount_in)
    /\ quoted' = Append(quoted, SwapArgs)
    /\ pc' = "cs_panic_arith"
    /\ UNCHANGED <<partition, i, j, in_amounts, source_account_amount,
                   dest_account_amount, reserves_in, result>>
    /\ UNCHANGED <<fdVars, ipVars, xVars>>

\* utils.rs:34-35: all levels are collected and returned
CsReturn ==
    /\ pc = "cs_loop"
    /\ ~(Len(result) < Len(in_amounts))
    /\ pc' = "cs_done"
    /\ UNCHANGED <<partition, i, j>>
    /\ UNCHANGED <<fdVars, ipVars, csVars, xVars>>

NextCS == CsLevel \/ CsUnwrapPanic \/ CsArithPanic \/ CsReturn

SpecCS == InitCS /\ [][NextCS]_vars

\* C8: when the curve rejects the quote of a level, calculate_swap_return
\* does not fail: the cell of that level holds the Sentinel and the row
\* returned is complete, one entry per requested level.
C8_RejectedLevelIsSentinel ==
    /\ pc # "cs_panic_unwrap"
    /\ pc = "cs_done" => Len(result) = Len(in_amounts)
    /\ \A k \in 1 .. Len(result) :
          swap(quoted[k].amount_in, quoted[k].source, quoted[k].dest) = None
              => result[k] = MIN_VALUE

\* C9: every level of one call is quoted against the reserves that were
\* passed in, whatever the amounts of the earlier levels, and a quote is
\* rejected only if it is rejected on the reserves that were passed in.
C9_ReservesHeldFixed ==
    /\ \A k \in 1 .. Len(quoted) :
          /\ quoted[k].source = reserves_in.source
          /\ quoted[k].dest = reserves_in.dest
    /\ pc = "cs_panic_unwrap"
          => swap(quoted[Len(quoted)].amount_in, reserves_in.source,
                  reserves_in.dest) = None

\* =====================================================================
\* find_distribution (utils.rs:56-103)
\* =====================================================================

\* a cell of the value matrix: the Sentinel or a quote
Cells == {MIN_VALUE} \cup (0 .. MaxQuote)

\* amounts.len() (utils.rs:57)
dex_count == Cardinality(DOMAIN amounts)

\* vec![0; partition + 1] for each dex (utils.rs:59-67)
ZeroTable(V, P) == [d \in 0 .. V - 1 |-> [c \in 0 .. P |-> 0]]

\* a slip of the first loop: the Sentinel is written to dex 0 as well
BaseAnswerAllSentinel(ans, amts, col) ==
    [d \in DOMAIN ans |-> [ans[d] EXCEPT ![col] = MIN_VALUE]]

\* one iteration of the first loop (utils.rs:70-74): column col of the tables
BaseAnswer(ans, amts, col) ==
    [d \in DOMAIN ans |->
        [ans[d] EXCEPT ![col] = IF d = 0 THEN amts[0][col] ELSE MIN_VALUE]]

BaseParent(par, col) == [par EXCEPT ![0][col] = 0]

\* the candidate of the inner loop (utils.rs:81-82)
Candidate(ans, amts, r, col, k) == ans[r - 1][col - k] + amts[r][k]

\* the inner loop over k (utils.rs:80-85), from k up to col, on the pair of
\* tables t = [answer, parent]
RECURSIVE KLoop(_, _, _, _, _)
KLoop(t, amts, r, col, k) ==
    IF k >= col + 1 THEN t
    ELSE IF Candidate(t.answer, amts, r, col, k) > t.answer[r][col]
         THEN KLoop([answer |-> [t.answer EXCEPT ![r][col] =
                                    Candidate(t.answer, amts, r, col, k)],
                     parent |-> [t.parent EXCEPT ![r][col] = col - k]],
                    amts, r, col, k + 1)
         ELSE KLoop(t, amts, r, col, k + 1)

\* a slip of the loop body: the best value of the venues before r is not
\* carried over, the cell starts from what the first loop left there
DpCellNoCarry(t, amts, r, col) ==
    KLoop([answer |-> t.answer,
           parent |-> [t.parent EXCEPT ![r][col] = col]],
          amts, r, col, 1)

\* the body of the loop over j for dex r (utils.rs:78-85)
DpCell(t, amts, r, col) ==
    KLoop([answer |-> [t.answer EXCEPT ![r][col] = t.answer[r - 1][col]],
           parent |-> [t.parent EXCEPT ![r][col] = col]],
          amts, r, col, 1)

\* the exclusive upper end of the two loops over j (utils.rs:69, 77)
FillEnd(P) == P

\* a slip of the walk: the cut point is pushed instead of the quanta given
GivenCutPoint(par, d, l) == par[d][l]

\* the quanta pushed by one step of the walk (utils.rs:95)
Given(par, d, l) == l - par[d][l]

\* a slip of the walk: it goes on with no quanta left
WalkBreakNever(l) == l < 0

\* the walk stops before a step when no quanta are left (utils.rs:92-94)
WalkBreak(l) == l <= 0

\* a Vec given by its elements
Row(q) == [k \in 0 .. Len(q) - 1 |-> q[k + 1]]

\* the two worked examples of the design: partition 4, two venues, a linear
\* and a concave pair of quote rows
LinearScenario == Row(<<Row(<<10, 20, 30, 40>>), Row(<<9, 18, 27, 36>>)>>)
ConcaveScenario == Row(<<Row(<<5, 9, 12, 14>>), Row(<<4, 7, 9, 10>>)>>)
ScenarioPartition == Cardinality(DOMAIN LinearScenario[0])

\* inputs: 1..MaxDex venues, partition in 0..MaxPartition, one row of
\* partition cells per venue (the rows calculate_swap_return produces from
\* the partition levels of interpolation), at most MaxCells cells in all;
\* and the two worked examples
InitFD ==
    /\ pc = "fd_alloc"
    /\ \/ /\ partition \in 0 .. MaxPartition
          /\ \E V \in 1 .. MaxDex :
                /\ V * partition <= MaxCells
                /\ amounts \in [0 .. V - 1 -> [0 .. partition - 1 -> Cells]]
       \/ /\ partition = ScenarioPartition
          /\ amounts \in {LinearScenario, ConcaveScenario}
    /\ answer = <<>> /\ parent = <<>>
    /\ i = 0 /\ j = 0
    /\ distribution = <<>> /\ left = 0 /\ dex = 0 /\ filled = {}
    /\ IdleIP /\ IdleCS /\ IdleX

\* utils.rs:57-67
FdAlloc ==
    /\ pc = "fd_alloc"
    /\ answer' = ZeroTable(dex_count, partition)
    /\ parent' = ZeroTable(dex_count, partition)
    /\ j' = 0
    /\ pc' = "fd_base"
    /\ UNCHANGED <<partition, amounts, i, distribution, left, dex, filled>>
    /\ UNCHANGED <<ipVars, csVars, xVars>>

\* utils.rs:69-75, one iteration
FdBaseIter ==
    /\ pc = "fd_base"
    /\ j < FillEnd(partition)
    /\ answer' = BaseAnswer(answer, amounts, j)
    /\ parent' = BaseParent(parent, j)
    /\ filled' = filled \cup {<<0, j>>}
    /\ j' = j + 1
    /\ UNCHANGED <<pc, partition, amounts, i, distribution, left, dex>>
    /\ UNCHANGED <<ipVars, csVars, xVars>>

\* utils.rs:69 loop end, entering the loop of utils.rs:76
FdBaseExit ==
    /\ pc = "fd_base"
    /\ ~(j < FillEnd(partition))
    /\ i' = 1 /\ j' = 0
    /\ pc' = "fd_dp"
    /\ UNCHANGED <<partition, amounts, answer, parent, distribution, left, dex,
                   filled>>
    /\ UNCHANGED <<ipVars, csVars, xVars>>

\* utils.rs:77-86, one iteration of the loop over j for dex i
FdDpCell ==
    /\ pc = "fd_dp"
    /\ i < dex_count
    /\ j < FillEnd(partition)
    /\ LET t == DpCell([answer |-> answer, parent |-> parent], amounts, i, j)
       IN  /\ answer' = t.answer
           /\ parent' = t.parent
    /\ filled' = filled \cup {<<i, j>>}
    /\ j' = j + 1
    /\ UNCHANGED <<pc, partition, amounts, i, distribution, left, dex>>
    /\ UNCHANGED <<ipVars, csVars, xVars>>

\* utils.rs:77 loop end, next dex of the loop of utils.rs:76
FdDpRowExit ==
    /\ pc = "fd_dp"
    /\ i < dex_count
    /\ ~(j < FillEnd(partition))
    /\ i' = i + 1 /\ j' = 0
    /\ UNCHANGED <<pc, partition, amounts, answer, parent, distribution, left,
                   dex, filled>>
    /\ UNCHANGED <<ipVars, csVars, xVars>>

\* utils.rs:76 loop end and utils.rs:88-90
FdDpExit ==
    /\ pc = "fd_dp"
    /\ ~(i < dex_count)
    /\ distribution' = <<>>
    /\ left' = partition
    /\ dex' = dex_count - 1
    /\ pc' = "fd_walk"
    /\ UNCHANGED <<partition, amounts, answer, parent, i, j, filled>>
    /\ UNCHANGED <<ipVars, csVars, xVars>>

\* utils.rs:92-94: break, then return distribution (utils.rs:102)
FdWalkBreak ==
    /\ pc = "fd_walk"
    /\ WalkBreak(left)
    /\ pc' = "fd_done"
    /\ UNCHANGED <<partition, amounts, answer, parent, i, j, distribution, left,
                   dex, filled>>
    /\ UNCHANGED <<ipVars, csVars, xVars>>

\* utils.rs:95-100: one step of the walk; at dex 0 break and return
FdWalkStep ==
    /\ pc = "fd_walk"
    /\ ~WalkBreak(left)
    /\ distribution' = Append(distribution, Given(parent, dex, left))
    /\ left' = parent[dex][left]
    /\ IF dex = 0
          THEN pc' = "fd_done" /\ dex' = dex
          ELSE pc' = pc /\ dex' = dex - 1
    /\ UNCHANGED <<partition, amounts, answer, parent, i, j, filled>>
    /\ UNCHANGED <<ipVars, csVars, xVars>>

NextFD == \/ FdAlloc \/ FdBaseIter \/ FdBaseExit \/ FdDpCell \/ FdDpRowExit
          \/ FdDpExit \/ FdWalkBreak \/ FdWalkStep

SpecFD == InitFD /\ [][NextFD]_vars

\* --- find_distribution as a function of its arguments: the same steps,
\* --- composed (utils.rs:56-103)
RECURSIVE BaseLoop(_, _, _, _)
BaseLoop(t, amts, P, col) ==
    IF col < FillEnd(P)
       THEN BaseLoop([answer |-> BaseAnswer(t.answer, amts, col),
                      parent |-> BaseParent(t.parent, col)], amts, P, col + 1)
       ELSE t

RECURSIVE DpLoop(_, _, _, _, _, _)
DpLoop(t, amts, V, P, r, col) ==
    IF ~(r < V) THEN t
    ELSE IF col < FillEnd(P)
         THEN DpLoop(DpCell(t, amts, r, col), amts, V, P, r, col + 1)
         ELSE DpLoop(t, amts, V, P, r + 1, 0)

RECURSIVE Walk(_, _, _, _)
Walk(par, dist, l, d) ==
    IF WalkBreak(l) THEN dist
    ELSE IF d = 0 THEN Append(dist, Given(par, d, l))
         ELSE Walk(par, Append(dist, Given(par, d, l)), par[d][l], d - 1)

find_distribution(P, amts) ==
    LET V  == Cardinality(DOMAIN amts)
        t0 == [answer |-> ZeroTable(V, P), parent |-> ZeroTable(V, P)]
        t1 == BaseLoop(t0, amts, P, 0)
        t2 == DpLoop(t1, amts, V, P, 1, 0)
    IN  Walk(t2.parent, <<>>, P, V - 1)

\* ---------------------------------------------------------------------
\* Vocabulary of the properties of find_distribution
\* ---------------------------------------------------------------------
RECURSIVE SumSeq(_)
SumSeq(q) == IF q = <<>> THEN 0 ELSE Head(q) + SumSeq(Tail(q))

\* M[v][k]: the quote for giving venue v exactly k quanta; level index k-1
\* of the row interpolation/calculate_swap_return produce is k quanta, and
\* 0 quanta contribute 0
M(amts, v, k) == IF k = 0 THEN 0 ELSE amts[v][k - 1]

RECURSIVE TotalUpTo(_, _, _)
TotalUpTo(amts, q, v) ==
    IF v < 0 THEN 0 ELSE M(amts, v, q[v]) + TotalUpTo(amts, q, v - 1)

\* total quoted output of the assignment q of quanta to the venues
TotalOut(amts, q) == TotalUpTo(amts, q, Cardinality(DOMAIN amts) - 1)

RECURSIVE QuantaUpTo(_, _)
QuantaUpTo(q, v) == IF v < 0 THEN 0 ELSE q[v] + QuantaUpTo(q, v - 1)

\* all ways of assigning exactly P quanta to the V venues
Assignments(V, P) ==
    {q \in [0 .. V - 1 -> 0 .. P] : QuantaUpTo(q, V - 1) = P}

BestTotal(amts, P) ==
    LET V == Cardinality(DOMAIN amts)
        totals == {TotalOut(amts, q) : q \in Assignments(V, P)}
    IN  CHOOSE b \in totals : \A o \in totals : o <= b

\* the per-venue reading of a returned list: the walk pushes the quanta of
\* venue V-1 first (utils.rs:90, 95, 100), so entry n (1-based) belongs to
\* venue V-n, and a venue without an entry has 0 quanta
AllocOf(dist, V) ==
    [v \in 0 .. V - 1 |-> IF V - v <= Len(dist) THEN dist[V - v] ELSE 0]

\* quanta left before the n-th entry of the returned list was pushed
LeftAt(n) == partition - SumSeq(SubSeq(distribution, 1, n - 1))

SentinelRow(amts, v) == \A k \in DOMAIN amts[v] : amts[v][k] = MIN_VALUE
CleanRow(amts, v) == \A k \in DOMAIN amts[v] : amts[v][k] # MIN_VALUE

\* the matrix without the row of venue v
RemoveVenue(amts, v) ==
    [d \in 0 .. Cardinality(DOMAIN amts) - 2 |->
        IF d < v THEN amts[d] ELSE amts[d + 1]]

\* C1: for V >= 1 venues and P >= 1 steps the returned allocation attains
\* the maximum total quoted output over all assignments of exactly P quanta
\* to the V venues.
C1_AllocationIsOptimal ==
    (pc = "fd_done" /\ partition >= 1)
        => TotalOut(amounts, AllocOf(distribution, dex_count))
              = BestTotal(amounts, partition)

\* C2: whenever find_distribution returns, the quanta of the returned
\* allocation sum to exactly partition.
C2_QuantaSumToPartition ==
    pc = "fd_done" => SumSeq(distribution) = partition

C2_Witness ==
    /\ pc = "fd_done" /\ dex_count >= 2 /\ partition >= 2
    /\ Len(distribution) >= 1

C7_NoViableRoute ==
    (partition >= 1 /\ amounts # <<>>
        /\ BestTotal(amounts, partition) <= MIN_VALUE)
        => pc # "fd_done"

\* C10: a venue whose whole row is the Sentinel, while another venue has a
\* Sentinel-free row, receives 0 quanta, and the other venues receive what
\* find_distribution gives them on the matrix without that venue.
C10_SentinelIsolation ==
    (pc = "fd_done" /\ partition >= 1)
        => \A v \in 0 .. dex_count - 1 :
              (/\ SentinelRow(amounts, v)
               /\ \E w \in 0 .. dex_count - 1 : w # v /\ CleanRow(amounts, w))
              => LET a == AllocOf(distribution, dex_count)
                     b == AllocOf(find_distribution(partition,
                                      RemoveVenue(amounts, v)), dex_count - 1)
                 IN  /\ a[v] = 0
                     /\ \A w \in 0 .. dex_count - 2 :
                           b[w] = IF w < v THEN a[w] ELSE a[w + 1]

\* the fill loops are over (utils.rs:87)
FillDone == pc \in {"fd_walk", "fd_done"}

\* row v is greater than every other row at every level
Dominates(amts, v) ==
    \A w \in DOMAIN amts : w # v =>
        \A k \in DOMAIN amts[v] : amts[v][k] > amts[w][k]

\* C11: a venue whose row is strictly greater than every other row at every
\* level is given all partition quanta, wherever it stands in the list; for
\* the linear example venue 0 gets all 4 quanta and the total is 40.
C11_DominantVenueTakesAll ==
    (pc = "fd_done" /\ partition >= 1)
        => LET a == AllocOf(distribution, dex_count)
           IN  /\ \A v \in 0 .. dex_count - 1 :
                     Dominates(amounts, v) => a[v] = partition
               /\ amounts = LinearScenario
                     => /\ a = Row(<<4, 0>>)
                        /\ TotalOut(amounts, a) = 40

\* C13: for the concave example the returned split is 2 quanta to venue 0
\* and 2 to venue 1, with total 16.
C13_ConcaveSplit ==
    (pc = "fd_done" /\ amounts = ConcaveScenario
        /\ partition = ScenarioPartition)
        => LET a == AllocOf(distribution, dex_count)
           IN  /\ a = Row(<<2, 2>>)
               /\ TotalOut(amounts, a) = 16

\* C14: with partition 1 and one venue the call returns, the allocation is
\* [1], and the value of the allocation, which is the value the fill
\* computed for that venue, is the venue's only quote.
C14_SingleQuantumSingleVenue ==
    (pc = "fd_done" /\ partition = 1 /\ dex_count = 1)
        => /\ distribution = <<1>>
           /\ TotalOut(amounts, AllocOf(distribution, dex_count))
                 = amounts[0][0]
           /\ answer[0][0] = amounts[0][0]

C14_Witness ==
    /\ pc = "fd_done" /\ partition = 1 /\ dex_count = 1
    /\ amounts[0][0] > 0 /\ distribution = <<1>>

\* the value of the allocation find_distribution returns on a matrix
ReturnedValue(P, amts) ==
    TotalOut(amts, AllocOf(find_distribution(P, amts),
                           Cardinality(DOMAIN amts)))

VenueOrders(V) ==
    {pi \in [0 .. V - 1 -> 0 .. V - 1] :
        \A v, w \in 0 .. V - 1 : pi[v] = pi[w] => v = w}

\* C15: the value obtained is the same for every reordering of the rows of
\* the value matrix.
C15_OrderInvariantValue ==
    (pc = "fd_done" /\ partition >= 1)
        => \A pi \in VenueOrders(dex_count) :
              ReturnedValue(partition, [v \in DOMAIN amounts |-> amounts[pi[v]]])
                 = TotalOut(amounts, AllocOf(distribution, dex_count))

\* the matrix as the inner loop indexes it: array index k is k quanta, and
\* 0 quanta contribute 0 (utils.rs:78, 80-82)
Mc(amts, v, k) == IF k = 0 THEN 0 ELSE amts[v][k]

\* the recurrence and the tie-break, for the venues after the first
DpRecurrence ==
    FillDone =>
        \A v \in 1 .. dex_count - 1 : \A c \in 0 .. partition - 1 :
            LET cand(k) == answer[v - 1][c - k] + Mc(amounts, v, k)
                best == CHOOSE b \in {cand(k) : k \in 0 .. c} :
                            \A k \in 0 .. c : cand(k) <= b
                kstar == CHOOSE k \in 0 .. c :
                            /\ cand(k) = best
                            /\ \A m \in 0 .. c : cand(m) = best => k <= m
            IN  /\ answer[v][c] = best
                /\ parent[v][c] = c - kstar

\* C17: after the fill, for every venue v >= 1 and column j computed,
\* answer[v][j] is the maximum over k in 0..j of answer[v-1][j-k] + M[v][k]
\* with M[v][0] = 0, parent[v][j] is j - k* for the smallest maximising k*,
\* and answer[0][j] = M[0][j] with the same meaning of the index.
C17_DpFill ==
    /\ DpRecurrence
    /\ FillDone =>
          \A c \in 0 .. partition - 1 : answer[0][c] = Mc(amounts, 0, c)

\* C18: the fill assigns every column 0..partition, so the cell at which
\* the walk starts is computed, and the walk reads no parent cell that the
\* fill has not assigned.
C18_WalkReadsFilledCells ==
    (pc = "fd_walk" /\ partition >= 1)
        => /\ \A c \in 0 .. partition : <<dex_count - 1, c>> \in filled
           /\ ~WalkBreak(left) => <<dex, left>> \in filled

\* the ways of spending exactly c quanta on the venues 0..v, their value as
\* the fill sums it, and whether a Sentinel cell is among the summands
Paths(v, c) == {q \in [0 .. v -> 0 .. c] : QuantaUpTo(q, v) = c}

RECURSIVE PathTail(_, _, _)
PathTail(amts, q, v) ==
    IF v < 1 THEN 0 ELSE Mc(amts, v, q[v]) + PathTail(amts, q, v - 1)

PathVal(amts, q, v) == amts[0][q[0]] + PathTail(amts, q, v)

HasSentinel(amts, q, v) ==
    \/ amts[0][q[0]] = MIN_VALUE
    \/ \E w \in 1 .. v : q[w] > 0 /\ amts[w][q[w]] = MIN_VALUE

\* C19: no sum formed by the fill leaves the i128 range, no answer cell is
\* below the Sentinel, and a sum that includes a Sentinel cell is smaller
\* than every sum of quotes only, so it is never the maximum when a sum of
\* quotes only exists.
C19_SentinelArithmetic ==
    /\ answer # <<>> =>
          \A v \in DOMAIN answer : \A c \in DOMAIN answer[v] :
              answer[v][c] >= MIN_VALUE
    /\ FillDone =>
          \A v \in 1 .. dex_count - 1 : \A c \in 0 .. partition - 1 :
              /\ \A k \in 1 .. c :
                    /\ Candidate(answer, amounts, v, c, k) >= I128_MIN
                    /\ Candidate(answer, amounts, v, c, k) <= I128_MAX
              /\ \A p, q \in Paths(v, c) :
                    (HasSentinel(amounts, p, v) /\ ~HasSentinel(amounts, q, v))
                        => PathVal(amounts, p, v) < PathVal(amounts, q, v)
              /\ (\E q \in Paths(v, c) : ~HasSentinel(amounts, q, v))
                    => \E q \in Paths(v, c) :
                          /\ ~HasSentinel(amounts, q, v)
                          /\ answer[v][c] = PathVal(amounts, q, v)

C19_Witness ==
    /\ pc = "fd_done" /\ dex_count >= 2 /\ partition >= 2
    /\ \E p, q \in Paths(1, partition - 1) :
          HasSentinel(amounts, p, 1) /\ ~HasSentinel(amounts, q, 1)

\* =====================================================================
\* Two step counts on one trade: interpolation (utils.rs:43-54) feeding the
\* value matrix whose best total find_distribution (utils.rs:56-103) is to
\* attain
\* =====================================================================

\* the row of a venue: its quote of every level (level index k is k + 1
\* quanta)
QuoteRow(q, lv) == [k \in 0 .. Len(lv) - 1 |-> q[lv[k + 1]]]

QuoteMatrix(qs, lv) == [v \in DOMAIN qs |-> QuoteRow(qs[v], lv)]

\* a trade amount, two step counts P < P', and for every venue a quote of
\* every input amount up to the trade amount; and the largest trade amount,
\* with one venue quoting 0
InitMO ==
    /\ pc = "mo_quantize"
    /\ partition \in 1 .. MaxPartition
    /\ partition2 \in 1 .. MaxPartition
    /\ partition < partition2
    /\ \/ /\ in_amount \in 1 .. MaxTrade
          /\ \E V \in 1 .. MaxDex :
                /\ V * (in_amount + 1) <= MaxCells
                /\ quotes \in [0 .. V - 1 -> [0 .. in_amount -> Cells]]
       \/ /\ in_amount = U64_MAX
          /\ quotes = [v \in 0 .. 0 |-> [a \in 0 .. in_amount |-> 0]]
    /\ level_sets = <<>> /\ value_matrices = <<>> /\ optimum = <<>>
    /\ i = 0 /\ j = 0 /\ levels = <<>>
    /\ IdleFD /\ IdleCS /\ IdleES /\ IdleOO /\ IdleEP /\ IdlePS

\* interpolation for both step counts returns
MoQuantize ==
    /\ pc = "mo_quantize"
    /\ interpolation(in_amount, partition).ok
    /\ interpolation(in_amount, partition2).ok
    /\ level_sets' = <<interpolation(in_amount, partition).levels,
                       interpolation(in_amount, partition2).levels>>
    /\ pc' = "mo_quote"
    /\ UNCHANGED <<partition, i, j, in_amount, levels, quotes, partition2,
                   value_matrices, optimum>>
    /\ UNCHANGED <<fdVars, csVars, esVars, ooVars, epVars, psVars>>

\* interpolation panics for one of the step counts
MoQuantizePanic ==
    /\ pc = "mo_quantize"
    /\ \/ ~interpolation(in_amount, partition).ok
       \/ ~interpolation(in_amount, partition2).ok
    /\ pc' = "mo_panic"
    /\ UNCHANGED <<partition, i, j, in_amount, levels, moVars>>
    /\ UNCHANGED <<fdVars, csVars, esVars, ooVars, epVars, psVars>>

\* every venue quotes every level, for both step counts
MoQuote ==
    /\ pc = "mo_quote"
    /\ value_matrices' = <<QuoteMatrix(quotes, level_sets[1]),
                           QuoteMatrix(quotes, level_sets[2])>>
    /\ pc' = "mo_optimize"
    /\ UNCHANGED <<partition, i, j, in_amount, levels, quotes, partition2,
                   level_sets, optimum>>
    /\ UNCHANGED <<fdVars, csVars, esVars, ooVars, epVars, psVars>>

\* the best total over all assignments of the quanta, for both step counts
MoOptimize ==
    /\ pc = "mo_optimize"
    /\ optimum' = <<BestTotal(value_matrices[1], partition),
                    BestTotal(value_matrices[2], partition2)>>
    /\ pc' = "mo_done"
    /\ UNCHANGED <<partition, i, j, in_amount, levels, quotes, partition2,
                   level_sets, value_matrices>>
    /\ UNCHANGED <<fdVars, csVars, esVars, ooVars, epVars, psVars>>

NextMO == MoQuantize \/ MoQuantizePanic \/ MoQuote \/ MoOptimize

SpecMO == InitMO /\ [][NextMO]_vars

Bytes == 0 .. MaxByte
Pubkeys == [0 .. PUBKEY_BYTES - 1 -> Bytes]

\* struct EscrowV1 (state.rs:84-102)
EscrowV1 == [is_initialized : BOOLEAN, bump_seed : Bytes,
             token_a : Pubkeys, token_a_mint : Pubkeys]

\* EscrowV1::default() (state.rs:83)
DefaultEscrowV1 == [is_initialized |-> FALSE, bump_seed |-> 0,
                    token_a |-> [n \in 0 .. PUBKEY_BYTES - 1 |-> 0],
                    token_a_mint |-> [n \in 0 .. PUBKEY_BYTES - 1 |-> 0]]

\* Pack::LEN of EscrowV1 (state.rs:134, 139): 1 + 1 + three Pubkey widths
EscrowV1_LEN == 1 + 1 + 3 * PUBKEY_BYTES

\* EscrowVersion::LATEST_LEN (state.rs:47)
LATEST_LEN == 1 + EscrowV1_LEN

\* input[from..] as a buffer of its own
SliceFrom(buf, from) ==
    [n \in 0 .. Cardinality(DOMAIN buf) - from - 1 |-> buf[n + from]]

BufLen(buf) == Cardinality(DOMAIN buf)

\* a slip of the layout: the unused token_program_id field is left out, so
\* token_a and token_a_mint are written one Pubkey width too early
pack_into_slice_no_gap(st, output) ==
    [n \in DOMAIN output |->
        IF n = 0 THEN (IF st.is_initialized THEN 1 ELSE 0)
        ELSE IF n = 1 THEN st.bump_seed
        ELSE IF n < 2 + PUBKEY_BYTES THEN st.token_a[n - 2]
        ELSE IF n < 2 + 2 * PUBKEY_BYTES
             THEN st.token_a_mint[n - 2 - PUBKEY_BYTES]
        ELSE output[n]]

\* Pack::pack_into_slice of EscrowV1 (state.rs:136-144): the fields at the
\* offsets of mut_array_refs![output, 1, 1, 32, 32, 32]; the token_program_id
\* bytes are not written
pack_into_slice(st, output) ==
    [n \in DOMAIN output |->
        IF n = 0 THEN (IF st.is_initialized THEN 1 ELSE 0)
        ELSE IF n = 1 THEN st.bump_seed
        ELSE IF n < 2 + PUBKEY_BYTES THEN output[n]
        ELSE IF n < 2 + 2 * PUBKEY_BYTES
             THEN st.token_a[n - 2 - PUBKEY_BYTES]
        ELSE IF n < 2 + 3 * PUBKEY_BYTES
             THEN st.token_a_mint[n - 2 - 2 * PUBKEY_BYTES]
        ELSE output[n]]

\* Pack::unpack_from_slice of EscrowV1 (state.rs:147-162)
unpack_from_slice(input) ==
    IF input[0] \notin {0, 1}
       THEN [err |-> "InvalidAccountData", val |-> DefaultEscrowV1]
       ELSE [err |-> "Ok",
             val |-> [is_initialized |-> (input[0] = 1),
                      bump_seed |-> input[1],
                      token_a |-> [n \in 0 .. PUBKEY_BYTES - 1 |->
                                     input[2 + PUBKEY_BYTES + n]],
                      token_a_mint |-> [n \in 0 .. PUBKEY_BYTES - 1 |->
                                     input[2 + 2 * PUBKEY_BYTES + n]]]]

\* EscrowV1::unpack (state.rs:66), the provided method of the Pack trait:
\* the length check of unpack_unchecked, unpack_from_slice, and the
\* is_initialized check
EscrowV1_unpack(input) ==
    IF BufLen(input) # EscrowV1_LEN
       THEN [err |-> "InvalidAccountData", val |-> DefaultEscrowV1]
       ELSE LET u == unpack_from_slice(input)
            IN  IF u.err # "Ok" THEN u
                ELSE IF u.val.is_initialized THEN u
                ELSE [err |-> "UninitializedAccount", val |-> DefaultEscrowV1]

\* EscrowVersion::unpack (state.rs:61-69)
EscrowVersion_unpack(input) ==
    IF BufLen(input) = 0
       THEN [err |-> "InvalidAccountData", val |-> DefaultEscrowV1]
       ELSE IF input[0] = 1 THEN EscrowV1_unpack(SliceFrom(input, 1))
       ELSE [err |-> "UninitializedAccount", val |-> DefaultEscrowV1]

\* dst after EscrowVersion::pack (state.rs:50-57) on a non-empty dst: the
\* version byte is written, then EscrowV1::pack (the provided method of the
\* Pack trait) writes dst[1..] if its length is LEN
EscrowVersion_pack_dst(st, dst) ==
    LET body == SliceFrom(dst, 1)
        out  == IF BufLen(body) = EscrowV1_LEN
                   THEN pack_into_slice(st, body) ELSE body
    IN  [n \in DOMAIN dst |-> IF n = 0 THEN 1 ELSE out[n - 1]]

\* its result
EscrowVersion_pack_err(dst) ==
    IF BufLen(dst) - 1 = EscrowV1_LEN THEN "Ok" ELSE "InvalidAccountData"

\* either an EscrowV1 and a buffer of one repeated byte to pack it into,
\* or any buffer to unpack
InitES ==
    /\ \/ /\ pc = "es_pack"
          /\ swap_info \in EscrowV1
          /\ \E len \in {0, LATEST_LEN - 1, LATEST_LEN, LATEST_LEN + 1} :
                \E fill \in Bytes : packed = [n \in 0 .. len - 1 |-> fill]
       \/ /\ pc = "es_unpack"
          /\ swap_info = <<>>
          /\ \E len \in {0, 1, LATEST_LEN - 1, LATEST_LEN} :
                packed \in [0 .. len - 1 -> Bytes]
    /\ unpacked = <<>>
    /\ partition = 0 /\ i = 0 /\ j = 0
    /\ IdleFD /\ IdleIP /\ IdleCS /\ IdleMO /\ IdleOO /\ IdleEP /\ IdlePS

\* EscrowVersion::pack(swap_info, &mut packed) returns Ok (state.rs:50-57)
EsPack ==
    /\ pc = "es_pack"
    /\ BufLen(packed) > 0
    /\ EscrowVersion_pack_err(packed) = "Ok"
    /\ packed' = EscrowVersion_pack_dst(swap_info, packed)
    /\ pc' = "es_unpack"
    /\ UNCHANGED <<partition, i, j, swap_info, unpacked>>
    /\ UNCHANGED <<fdVars, ipVars, csVars, moVars, ooVars, epVars, psVars>>

\* EscrowVersion::pack returns the error of EscrowV1::pack; the version
\* byte is already written (state.rs:53-54)
EsPackErr ==
    /\ pc = "es_pack"
    /\ BufLen(packed) > 0
    /\ EscrowVersion_pack_err(packed) # "Ok"
    /\ packed' = EscrowVersion_pack_dst(swap_info, packed)
    /\ pc' = "es_pack_err"
    /\ UNCHANGED <<partition, i, j, swap_info, unpacked>>
    /\ UNCHANGED <<fdVars, ipVars, csVars, moVars, ooVars, epVars, psVars>>

\* dst[0] = 1 on an empty dst panics (state.rs:53)
EsPackPanic ==
    /\ pc = "es_pack"
    /\ BufLen(packed) = 0
    /\ pc' = "es_panic"
    /\ UNCHANGED <<partition, i, j, esVars>>
    /\ UNCHANGED <<fdVars, ipVars, csVars, moVars, ooVars, epVars, psVars>>

\* EscrowVersion::unpack(&packed) (state.rs:61-69)
EsUnpack ==
    /\ pc = "es_unpack"
    /\ unpacked' = EscrowVersion_unpack(packed)
    /\ pc' = "es_done"
    /\ UNCHANGED <<partition, i, j, swap_info, packed>>
    /\ UNCHANGED <<fdVars, ipVars, csVars, moVars, ooVars, epVars, psVars>>

NextES == EsPack \/ EsPackErr \/ EsPackPanic \/ EsUnpack

SpecES == InitES /\ [][NextES]_vars

\* C16: an initialized EscrowV1 packed into a LATEST_LEN buffer unpacks to a
\* state with the same is_initialized, bump_seed, token account and token
\* mint; a buffer whose version byte is not 1, or (of LATEST_LEN bytes, with
\* version 1) whose is_initialized byte is 0, unpacks to
\* UninitializedAccount.
C16_PackUnpackRoundTrip ==
    pc = "es_done" =>
        /\ (swap_info # <<>> /\ swap_info.is_initialized)
              => /\ unpacked.err = "Ok"
                 /\ unpacked.val.is_initialized = swap_info.is_initialized
                 /\ unpacked.val.bump_seed = swap_info.bump_seed
                 /\ unpacked.val.token_a = swap_info.token_a
                 /\ unpacked.val.token_a_mint = swap_info.token_a_mint
        /\ (BufLen(packed) > 0 /\ packed[0] # 1)
              => unpacked.err = "UninitializedAccount"
        /\ (BufLen(packed) = LATEST_LEN /\ packed[0] = 1 /\ packed[1] = 0)
              => unpacked.err = "UninitializedAccount"

C16_Witness ==
    /\ pc = "es_done" /\ swap_info # <<>> /\ swap_info.is_initialized
    /\ swap_info.token_a # swap_info.token_a_mint
    /\ swap_info.bump_seed = MaxByte
    /\ packed[2] # 0
    /\ unpacked.err = "Ok"

\* =====================================================================
\* OOSwapInstruction::unpack (oo-route/program/src/instruction.rs)
\* =====================================================================

\* the number of values of a u8 (scaled down with the bytes)
U8_RANGE == MaxByte + 1

\* the bytes of a u64, 8 in the code (instruction.rs:60-61), scaled down
U64_LEN == 2

\* the bytes of one Swap entry, 16 in the code (instruction.rs:31, 35)
ENTRY_LEN == 2 * U64_LEN

\* u64::from_le_bytes (instruction.rs:65)
RECURSIVE from_le_bytes(_)
from_le_bytes(bs) ==
    IF bs = <<>> THEN 0 ELSE Head(bs) + U8_RANGE * from_le_bytes(Tail(bs))

\* OOSwapInstruction::unpack_u64 (instruction.rs:59-71)
unpack_u64(inp) ==
    IF Len(inp) >= U64_LEN
       THEN [ok |-> TRUE, amount |-> from_le_bytes(SubSeq(inp, 1, U64_LEN)),
             rest |-> SubSeq(inp, U64_LEN + 1, Len(inp))]
       ELSE [ok |-> FALSE, amount |-> 0, rest |-> <<>>]

\* Err(SwapError::InvalidInstruction.into())
InvalidInstruction == [ok |-> FALSE, err |-> "InvalidInstruction"]

\* size as u8 (instruction.rs:36)
AsU8(n) == n % U8_RANGE

\* byte strings of one length
BytesOfLen(len) == [1 .. len -> Bytes]

\* any input of up to MaxSwaps entries and one byte more, or a longer input
\* of one repeated byte, up to one entry more than a u8 counts
InitOO ==
    /\ pc = "oo_tag"
    /\ \/ \E len \in 0 .. 2 + MaxSwaps * ENTRY_LEN + 1 :
             oo_input \in BytesOfLen(len)
       \/ \E n \in MaxSwaps + 1 .. U8_RANGE + 1 : \E t \in {0, 1} :
             \E k \in Bytes : \E b \in Bytes : \E odd \in {0, 1} :
                oo_input = <<t, k>> \o [m \in 1 .. n * ENTRY_LEN + odd |-> b]
    /\ tag = 0 /\ swap_info_len = 0 /\ rest = <<>>
    /\ size = 0 /\ data = <<>> /\ instruction = <<>>
    /\ partition = 0 /\ i = 0 /\ j = 0
    /\ IdleFD /\ IdleIP /\ IdleCS /\ IdleMO /\ IdleES /\ IdleEP /\ IdlePS

\* input.split_first() fails (instruction.rs:26)
OoEmpty ==
    /\ pc = "oo_tag"
    /\ oo_input = <<>>
    /\ instruction' = InvalidInstruction
    /\ pc' = "oo_done"
    /\ UNCHANGED <<partition, i, j, oo_input, tag, swap_info_len, rest, size,
                   data>>
    /\ UNCHANGED <<fdVars, ipVars, csVars, moVars, esVars, epVars, psVars>>

\* input.split_first() and the match on tag 0 (instruction.rs:26-28)
OoTag ==
    /\ pc = "oo_tag"
    /\ oo_input # <<>>
    /\ Head(oo_input) = 0
    /\ tag' = Head(oo_input)
    /\ rest' = Tail(oo_input)
    /\ pc' = "oo_len"
    /\ UNCHANGED <<partition, i, j, oo_input, swap_info_len, size, data,
                   instruction>>
    /\ UNCHANGED <<fdVars, ipVars, csVars, moVars, esVars, epVars, psVars>>

\* any other tag (instruction.rs:26-27, 55)
OoBadTag ==
    /\ pc = "oo_tag"
    /\ oo_input # <<>>
    /\ Head(oo_input) # 0
    /\ tag' = Head(oo_input)
    /\ rest' = Tail(oo_input)
    /\ instruction' = InvalidInstruction
    /\ pc' = "oo_done"
    /\ UNCHANGED <<partition, i, j, oo_input, swap_info_len, size, data>>
    /\ UNCHANGED <<fdVars, ipVars, csVars, moVars, esVars, epVars, psVars>>

\* rest.split_first() fails (instruction.rs:29-30)
OoNoLen ==
    /\ pc = "oo_len"
    /\ rest = <<>>
    /\ instruction' = InvalidInstruction
    /\ pc' = "oo_done"
    /\ UNCHANGED <<partition, i, j, oo_input, tag, swap_info_len, rest, size,
                   data>>
    /\ UNCHANGED <<fdVars, ipVars, csVars, moVars, esVars, epVars, psVars>>

\* the payload is not a whole number of entries (instruction.rs:29-34)
OoMisaligned ==
    /\ pc = "oo_len"
    /\ rest # <<>>
    /\ Len(Tail(rest)) % ENTRY_LEN # 0
    /\ swap_info_len' = Head(rest)
    /\ rest' = Tail(rest)
    /\ instruction' = InvalidInstruction
    /\ pc' = "oo_done"
    /\ UNCHANGED <<partition, i, j, oo_input, tag, size, data>>
    /\ UNCHANGED <<fdVars, ipVars, csVars, moVars, esVars, epVars, psVars>>

\* size as u8 differs from swap_info_len (instruction.rs:29-39)
OoMismatch ==
    /\ pc = "oo_len"
    /\ rest # <<>>
    /\ Len(Tail(rest)) % ENTRY_LEN = 0
    /\ AsU8(Len(Tail(rest)) \div ENTRY_LEN) # Head(rest)
    /\ swap_info_len' = Head(rest)
    /\ rest' = Tail(rest)
    /\ size' = Len(Tail(rest)) \div ENTRY_LEN
    /\ instruction' = InvalidInstruction
    /\ pc' = "oo_done"
    /\ UNCHANGED <<partition, i, j, oo_input, tag, data>>
    /\ UNCHANGED <<fdVars, ipVars, csVars, moVars, esVars, epVars, psVars>>

\* both checks pass, data = vec![] (instruction.rs:29-41)
OoLen ==
    /\ pc = "oo_len"
    /\ rest # <<>>
    /\ Len(Tail(rest)) % ENTRY_LEN = 0
    /\ AsU8(Len(Tail(rest)) \div ENTRY_LEN) = Head(rest)
    /\ swap_info_len' = Head(rest)
    /\ rest' = Tail(rest)
    /\ size' = Len(Tail(rest)) \div ENTRY_LEN
    /\ data' = <<>>
    /\ pc' = "oo_loop"
    /\ UNCHANGED <<partition, i, j, oo_input, tag, instruction>>
    /\ UNCHANGED <<fdVars, ipVars, csVars, moVars, esVars, epVars, psVars>>

\* one iteration of the loop (instruction.rs:42-49): the two unpack_u64
\* calls bind a new rest inside the body, the outer rest is not assigned
OoEntry ==
    /\ pc = "oo_loop"
    /\ Len(data) < size
    /\ LET first  == unpack_u64(rest)
           second == unpack_u64(first.rest)
       IN  IF first.ok /\ second.ok
              THEN /\ data' = Append(data,
                                [amount_in |-> first.amount,
                                 minimum_amount_out |-> second.amount])
                   /\ pc' = "oo_loop"
                   /\ UNCHANGED instruction
              ELSE /\ instruction' = InvalidInstruction
                   /\ pc' = "oo_done"
                   /\ UNCHANGED data
    /\ UNCHANGED <<partition, i, j, oo_input, tag, swap_info_len, rest, size>>
    /\ UNCHANGED <<fdVars, ipVars, csVars, moVars, esVars, epVars, psVars>>

\* Ok(Self::OOSwap(OOSwapStruct { data, swap_info_len }))
\* (instruction.rs:50-53)
OoReturn ==
    /\ pc = "oo_loop"
    /\ Len(data) = size
    /\ instruction' = [ok |-> TRUE, data |-> data,
                       swap_info_len |-> swap_info_len]
    /\ pc' = "oo_done"
    /\ UNCHANGED <<partition, i, j, oo_input, tag, swap_info_len, rest, size,
                   data>>
    /\ UNCHANGED <<fdVars, ipVars, csVars, moVars, esVars, epVars, psVars>>

NextOO ==
    \/ OoEmpty \/ OoTag \/ OoBadTag \/ OoNoLen \/ OoMisaligned
    \/ OoMismatch \/ OoLen \/ OoEntry \/ OoReturn

SpecOO == InitOO /\ [][NextOO]_vars

\* the payload after the swap_info_len byte
Payload(inp) == SubSeq(inp, 3, Len(inp))

\* entry n (from 0) of a payload, read at its own offset
EntryAt(pl, n) ==
    [amount_in |->
        from_le_bytes(SubSeq(pl, ENTRY_LEN * n + 1, ENTRY_LEN * n + U64_LEN)),
     minimum_amount_out |->
        from_le_bytes(SubSeq(pl, ENTRY_LEN * n + U64_LEN + 1,
                             ENTRY_LEN * (n + 1)))]

\* C20: unpack of tag 0 succeeds exactly when the payload after the
\* swap_info_len byte is (entry size) * swap_info_len bytes long; on success
\* data has swap_info_len entries and entry n carries the little-endian
\* amount_in and minimum_amount_out of its own bytes of the payload; every
\* other tag, an empty input or a mismatching length yields
\* InvalidInstruction.
C20_UnpackTag0 ==
    pc = "oo_done" =>
        LET wellFormed == /\ Len(oo_input) >= 2
                          /\ oo_input[1] = 0
                          /\ Len(Payload(oo_input)) = ENTRY_LEN * oo_input[2]
        IN  /\ instruction.ok <=> wellFormed
            /\ ~instruction.ok => instruction = InvalidInstruction
            /\ instruction.ok =>
                  /\ instruction.swap_info_len = oo_input[2]
                  /\ Len(instruction.data) = oo_input[2]
                  /\ \A n \in 0 .. Len(instruction.data) - 1 :
                        instruction.data[n + 1] = EntryAt(Payload(oo_input), n)

\* =====================================================================
\* Escrow processor (token-escrow/program/src/processor.rs)
\* =====================================================================

\* every instruction always answers FALSE: the AlreadyInUse check is lost
EscrowVersion_is_initialized_never(buf) == FALSE

\* EscrowVersion::is_initialized (state.rs:73-78)
EscrowVersion_is_initialized(buf) ==
    LET u == EscrowVersion_unpack(buf)
    IN  IF u.err = "Ok" THEN u.val.is_initialized ELSE FALSE

\* the owners an account can have: this program or another one
Owners == {"program_id", "other"}

\* Processor::authority_id (processor.rs:64-71) for the escrow account
\* is one of Derivations(escrow), escrow being what EscrowVersion::unpack
\* returned: with the bump seed found by find_program_address it is that
\* authority; with another seed it is an error or some address; it is not
\* called when unpack failed
Derivations(escrow) ==
    IF escrow.err # "Ok"
       THEN {[ok |-> FALSE, key |-> DefaultEscrowV1.token_a]}
    ELSE IF escrow.val.bump_seed = program_address.bump_seed
       THEN {[ok |-> TRUE, key |-> program_address.authority]}
    ELSE [ok : {TRUE}, key : Pubkeys]
            \cup {[ok |-> FALSE, key |-> DefaultEscrowV1.token_a]}

\* the keys instructions name: one per byte value
KeyOf(b) == [n \in 0 .. PUBKEY_BYTES - 1 |-> b]
IxKeys == {KeyOf(b) : b \in Bytes}

\* Processor::check_accounts (processor.rs:103-128); derived is what
\* authority_id returns for the stored bump seed
check_accounts(escrow, authority_key, token_key, user_token_key, derived) ==
    IF escrow_info.owner # "program_id" THEN "IncorrectProgramId"
    ELSE IF ~derived.ok THEN "InvalidProgramAddress"
    ELSE IF authority_key # derived.key THEN "InvalidProgramAddress"
    ELSE IF token_key # escrow.token_a THEN "IncorrectSwapAccount"
    ELSE IF token_key = user_token_key THEN "InvalidInput"
    ELSE "Ok"

\* a result that leaves the escrow account as it is and invokes nothing
Returned(ix, accounts, err) ==
    [ix |-> ix, accounts |-> Len(accounts), err |-> err,
     data |-> escrow_info.data, transfer |-> <<>>]

\* Processor::process_initialize (processor.rs:131-157): the result and the
\* account data it leaves behind; accounts are the keys of the accounts
\* passed, the escrow account first
process_initialize(accounts) ==
    IF Len(accounts) < 3
       THEN Returned("Initialize", accounts, "NotEnoughAccountKeys")
    ELSE IF EscrowVersion_is_initialized(escrow_info.data)
       THEN Returned("Initialize", accounts, "AlreadyInUse")
    ELSE IF accounts[2] # program_address.authority
       THEN Returned("Initialize", accounts, "InvalidProgramAddress")
    ELSE IF BufLen(escrow_info.data) = 0
       THEN Returned("Initialize", accounts, "panic")
    ELSE LET obj == [is_initialized |-> TRUE,
                     bump_seed |-> program_address.bump_seed,
                     token_a |-> accounts[3],
                     token_a_mint |-> accounts[3]]
         IN  [ix |-> "Initialize", accounts |-> Len(accounts),
              err |-> EscrowVersion_pack_err(escrow_info.data),
              data |-> EscrowVersion_pack_dst(obj, escrow_info.data),
              transfer |-> <<>>]

\* Processor::token_transfer (processor.rs:74-100): the transfer handed to
\* the token program, and what the invocation returns
token_transfer(ix, accounts, source, destination, authority, amount, res) ==
    [ix |-> ix, accounts |-> Len(accounts), err |-> res,
     data |-> escrow_info.data,
     transfer |-> [source |-> source, destination |-> destination,
                   authority |-> authority, amount |-> amount]]

\* Processor::process_deposit_token_types (processor.rs:160-194); the
\* accounts are escrow, authority, user transfer authority, source, token,
\* dest, token program
process_deposit_token_types(accounts, token_amount, derived, invoked) ==
    LET token_escrow == EscrowVersion_unpack(escrow_info.data)
    IN  IF Len(accounts) < 7
           THEN Returned("Deposit", accounts, "NotEnoughAccountKeys")
        ELSE IF token_escrow.err # "Ok"
           THEN Returned("Deposit", accounts, token_escrow.err)
        ELSE IF check_accounts(token_escrow.val, accounts[2], accounts[5],
                               accounts[4], derived) # "Ok"
           THEN Returned("Deposit", accounts,
                         check_accounts(token_escrow.val, accounts[2],
                                        accounts[5], accounts[4], derived))
        ELSE token_transfer("Deposit", accounts, accounts[4], accounts[5],
                            accounts[3], token_amount, invoked)

\* Processor::process_withdraw_token_types (processor.rs:197-233); the
\* accounts are escrow, authority, user transfer authority, source, token,
\* dest token, token program
process_withdraw_token_types(accounts, token_amount, derived, invoked) ==
    LET token_escrow == EscrowVersion_unpack(escrow_info.data)
    IN  IF Len(accounts) < 7
           THEN Returned("Withdraw", accounts, "NotEnoughAccountKeys")
        ELSE IF token_escrow.err # "Ok"
           THEN Returned("Withdraw", accounts, token_escrow.err)
        ELSE IF check_accounts(token_escrow.val, accounts[2], accounts[5],
                               accounts[6], derived) # "Ok"
           THEN Returned("Withdraw", accounts,
                         check_accounts(token_escrow.val, accounts[2],
                                        accounts[5], accounts[6], derived))
        ELSE IF token_amount > 0
           THEN token_transfer("Withdraw", accounts, accounts[5],
                               accounts[6], accounts[2], token_amount,
                               invoked)
        ELSE Returned("Withdraw", accounts, "Ok")

\* the account lists of an Initialize: escrow, authority, token; or one
\* account short
InitializeAccounts ==
    {<<KeyOf(0), KeyOf(0)>>}
       \cup {<<KeyOf(0), a, t>> : a \in IxKeys, t \in IxKeys}

\* the account lists of a Deposit or a Withdraw, with the user's token
\* account in place `user` (4, source, or 6, dest); or one account short
TransferAccounts(user) ==
    {[n \in 1 .. 6 |-> KeyOf(0)]}
       \cup {[n \in 1 .. 7 |-> IF n = 2 THEN l[1] ELSE IF n = 5 THEN l[2]
                               ELSE IF n = user THEN l[3] ELSE KeyOf(0)] :
                l \in [1 .. 3 -> IxKeys]}

\* the EscrowV1 the account data holds
Stored == EscrowVersion_unpack(escrow_info.data)

\* what the token program's transfer can return
Invocations == {"Ok", "InsufficientFunds"}

\* a new account: zeroed data of some length, owned by this program or not,
\* and the program address find_program_address derives for its key
InitEP ==
    /\ pc = "ep_ready"
    /\ \E owner \in Owners :
          \E len \in {0, LATEST_LEN - 1, LATEST_LEN, LATEST_LEN + 1} :
             escrow_info = [owner |-> owner,
                            data |-> [n \in 0 .. len - 1 |-> 0]]
    /\ \E authority \in IxKeys : \E bump \in Bytes :
          program_address = [authority |-> authority, bump_seed |-> bump]
    /\ ix_result = <<>> /\ written = <<>> /\ ix_count = 0
    /\ partition = 0 /\ i = 0 /\ j = 0
    /\ IdleFD /\ IdleIP /\ IdleCS /\ IdleMO /\ IdleES /\ IdleOO /\ IdlePS

\* the escrow account after an instruction, and the record of the first
\* EscrowV1 an Initialize stored in it
EpApply(r) ==
    /\ ix_result' = r
    /\ escrow_info' = [escrow_info EXCEPT !.data = r.data]
    /\ written' = IF written = <<>> /\ r.ix = "Initialize" /\ r.err = "Ok"
                     THEN EscrowVersion_unpack(r.data).val
                     ELSE written
    /\ ix_count' = ix_count + 1
    /\ UNCHANGED <<pc, partition, i, j, program_address>>
    /\ UNCHANGED <<fdVars, ipVars, csVars, moVars, esVars, ooVars, psVars>>

\* EscrowInstruction::Initialize (processor.rs:248-251, 131-157)
Initialize ==
    /\ pc = "ep_ready" /\ ix_count < MaxIx
    /\ \E accounts \in InitializeAccounts :
          EpApply(process_initialize(accounts))

\* EscrowInstruction::DepositTokenTypes (processor.rs:252-257, 160-194)
DepositTokenTypes ==
    /\ pc = "ep_ready" /\ ix_count < MaxIx
    /\ \E accounts \in TransferAccounts(4) : \E token_amount \in {0, 1} :
          \E invoked \in Invocations : \E derived \in Derivations(Stored) :
             EpApply(process_deposit_token_types(accounts, token_amount,
                                                 derived, invoked))

\* EscrowInstruction::WithdrawTokenTypes (processor.rs:258-263, 197-233)
WithdrawTokenTypes ==
    /\ pc = "ep_ready" /\ ix_count < MaxIx
    /\ \E accounts \in TransferAccounts(6) : \E token_amount \in {0, 1} :
          \E invoked \in Invocations : \E derived \in Derivations(Stored) :
             EpApply(process_withdraw_token_types(accounts, token_amount,
                                                  derived, invoked))

NextEP == Initialize \/ DepositTokenTypes \/ WithdrawTokenTypes

SpecEP == InitEP /\ [][NextEP]_vars

\* C21: an Initialize (with its three accounts) on an account whose data
\* unpacks as initialized returns AlreadyInUse and leaves the data as it
\* was; Deposit and Withdraw leave the data as it was; and once an
\* Initialize has succeeded, the stored bump seed and token account stay
\* what it stored, in every later state.
C21_WrittenAtMostOnce ==
    [][/\ (/\ ix_result'.ix = "Initialize"
           /\ ix_result'.accounts >= 3
           /\ Stored.err = "Ok" /\ Stored.val.is_initialized)
             => /\ ix_result'.err = "AlreadyInUse"
                /\ escrow_info'.data = escrow_info.data
       /\ ix_result'.ix \in {"Deposit", "Withdraw"}
             => escrow_info'.data = escrow_info.data
       /\ written # <<>>
             => /\ written' = written
                /\ EscrowVersion_unpack(escrow_info'.data).err = "Ok"
                /\ EscrowVersion_unpack(escrow_info'.data).val.bump_seed
                      = written.bump_seed
                /\ EscrowVersion_unpack(escrow_info'.data).val.token_a
                      = written.token_a]_vars

C21_Witness ==
    /\ written # <<>>
    /\ ix_count = MaxIx
    /\ ix_result.ix = "Initialize"
    /\ ix_result.err = "AlreadyInUse"
    /\ Stored.val.token_a = written.token_a
    /\ Stored.val.bump_seed = written.bump_seed

\* =====================================================================
\* process_swap (oo-route/program/src/processor.rs)
\* =====================================================================

\* what SwapVersion::unpack and the accessors of the state give for an
\* account that holds no pool state (processor.rs:73)
NoSwap ==
    [ok |-> FALSE, authority |-> [ok |-> FALSE, key |-> ""],
     token_a_account |-> "", token_b_account |-> "", pool_mint |-> "",
     pool_fee_account |-> "", token_program_id |-> ""]

\* a pool state: its accessors (processor.rs:75-101), and what authority_id
\* derives from the pool's key and nonce (processor.rs:38-45, 75)
Pool ==
    [ok |-> TRUE, authority |-> [ok |-> TRUE, key |-> "authority"],
     token_a_account |-> "a", token_b_account |-> "b", pool_mint |-> "mint",
     pool_fee_account |-> "fee", token_program_id |-> "token"]

\* an AccountInfo: key, owner, and what its data unpacks to
Account(key) == [key |-> key, owner |-> "other", swap |-> NoSwap]

\* the seven accounts of a leg (processor.rs:62-68) that pass every check,
\* with the given pool source and destination
Leg(swap_source, swap_destination) ==
    <<[key |-> "pool", owner |-> "program_id", swap |-> Pool],
      Account("authority"), Account(swap_source), Account(swap_destination),
      Account("mint"), Account("fee"), Account("token")>>

\* legs that pass, and legs with one thing wrong
LegKinds ==
    {Leg("a", "b"), Leg("b", "a"), Leg("a", "a"), Leg("x", "b"),
     Leg("a", "x"),
     [Leg("a", "b") EXCEPT ![1].owner = "other"],
     [Leg("a", "b") EXCEPT ![1].swap = NoSwap],
     [Leg("a", "b") EXCEPT ![1].swap.authority = NoSwap.authority],
     [Leg("a", "b") EXCEPT ![2].key = "x"],
     [Leg("a", "b") EXCEPT ![5].key = "x"],
     [Leg("a", "b") EXCEPT ![6].key = "x"],
     [Leg("a", "b") EXCEPT ![7].key = "x"]}

\* the Swap entries of data
SwapEntries == {[amount_in |-> 1, minimum_amount_out |-> 0],
                [amount_in |-> 2, minimum_amount_out |-> 1]}

\* the accounts of an instruction: user transfer authority, source,
\* destination, then seven per leg
AccountList(source, legs) ==
    [m \in 1 .. 3 + 7 * Len(legs) |->
        IF m = 1 THEN Account("user")
        ELSE IF m = 2 THEN Account(source)
        ELSE IF m = 3 THEN Account("destination")
        ELSE legs[((m - 4) \div 7) + 1][((m - 4) % 7) + 1]]

\* process_swap is called with the data and swap_info_len that
\* OOSwapInstruction::unpack returned (processor.rs:159-166), data holding
\* swap_info_len entries, and with an account list that is complete or one
\* account short
InitPS ==
    /\ pc = "ps_users"
    /\ swap_info_len \in 0 .. MaxSwaps
    /\ data \in [1 .. swap_info_len -> SwapEntries]
    /\ \E legs \in [1 .. swap_info_len -> LegKinds] :
          \E source \in {"a", "u"} : \E short \in {0, 1} :
             account_infos =
                SubSeq(AccountList(source, legs), 1,
                       3 + 7 * swap_info_len - short)
    /\ swaps_invoked = <<>> /\ swap_result = <<>>
    /\ oo_input = <<>> /\ tag = 0 /\ rest = <<>> /\ size = swap_info_len
    /\ instruction = <<>>
    /\ partition = 0 /\ i = 0 /\ j = 0
    /\ IdleFD /\ IdleIP /\ IdleCS /\ IdleMO /\ IdleES /\ IdleEP

\* the accounts leg n reads with next_account_info (processor.rs:62-68),
\* as many of the seven as the list holds
LegAccounts(n) ==
    SubSeq(account_infos, 3 + 7 * n + 1,
           IF Len(account_infos) < 3 + 7 * n + 7 THEN Len(account_infos)
           ELSE 3 + 7 * n + 7)

\* the check is lost
UserSourceClashNever(swap_source_info, source_info) == FALSE

\* swap_source_info.key == source_info.key (processor.rs:92)
UserSourceClash(swap_source_info, source_info) ==
    swap_source_info.key = source_info.key

\* the checks of leg n (processor.rs:62-103): the error returned, or Ok
LegCheck(n) ==
    LET acc == LegAccounts(n)
        source_info == account_infos[2]
        token_swap == acc[1].swap
    IN  IF Len(acc) < 7 THEN "NotEnoughAccountKeys"
        ELSE IF acc[1].owner # "program_id" THEN "IncorrectProgramId"
        ELSE IF ~token_swap.ok THEN "InvalidAccountData"
        ELSE IF ~token_swap.authority.ok THEN "InvalidProgramAddress"
        ELSE IF acc[2].key # token_swap.authority.key
           THEN "InvalidProgramAddress"
        ELSE IF ~(\/ acc[3].key = token_swap.token_a_account
                  \/ acc[3].key = token_swap.token_b_account)
           THEN "IncorrectSwapAccount"
        ELSE IF ~(\/ acc[4].key = token_swap.token_a_account
                  \/ acc[4].key = token_swap.token_b_account)
           THEN "IncorrectSwapAccount"
        ELSE IF acc[3].key = acc[4].key THEN "InvalidInput"
        ELSE IF UserSourceClash(acc[3], source_info) THEN "InvalidInput"
        ELSE IF acc[5].key # token_swap.pool_mint THEN "IncorrectPoolMint"
        ELSE IF acc[6].key # token_swap.pool_fee_account
           THEN "IncorrectFeeAccount"
        ELSE IF acc[7].key # token_swap.token_program_id
           THEN "IncorrectTokenProgramId"
        ELSE "Ok"

\* the instruction built by swap(..) and handed to invoke_signed
\* (processor.rs:110-140), with what the invocation returned
Invoked(n, res) ==
    [leg |-> n, swap |-> data[n + 1], swap_info |-> LegAccounts(n)[1].key,
     swap_source |-> LegAccounts(n)[3].key,
     swap_destination |-> LegAccounts(n)[4].key, res |-> res]

\* the three user accounts are read; one is missing (processor.rs:56-58)
PsUsersShort ==
    /\ pc = "ps_users"
    /\ Len(account_infos) < 3
    /\ swap_result' = [err |-> "NotEnoughAccountKeys"]
    /\ pc' = "ps_done"
    /\ UNCHANGED <<partition, i, j, account_infos, swaps_invoked>>
    /\ UNCHANGED <<fdVars, ipVars, csVars, moVars, esVars, ooVars, epVars>>

\* the three user accounts are read, the loop starts (processor.rs:56-61)
PsUsers ==
    /\ pc = "ps_users"
    /\ Len(account_infos) >= 3
    /\ i' = 0
    /\ pc' = "ps_leg"
    /\ UNCHANGED <<partition, j, psVars>>
    /\ UNCHANGED <<fdVars, ipVars, csVars, moVars, esVars, ooVars, epVars>>

\* a check of leg i fails (processor.rs:62-103)
PsCheckFails ==
    /\ pc = "ps_leg"
    /\ i < swap_info_len
    /\ LegCheck(i) # "Ok"
    /\ swap_result' = [err |-> LegCheck(i)]
    /\ pc' = "ps_done"
    /\ UNCHANGED <<partition, i, j, account_infos, swaps_invoked>>
    /\ UNCHANGED <<fdVars, ipVars, csVars, moVars, esVars, ooVars, epVars>>

\* the checks of leg i pass and its invocation succeeds
\* (processor.rs:62-144)
PsInvoke ==
    /\ pc = "ps_leg"
    /\ i < swap_info_len
    /\ LegCheck(i) = "Ok"
    /\ swaps_invoked' = Append(swaps_invoked, Invoked(i, "Ok"))
    /\ i' = i + 1
    /\ UNCHANGED <<pc, partition, j, account_infos, swap_result>>
    /\ UNCHANGED <<fdVars, ipVars, csVars, moVars, esVars, ooVars, epVars>>

\* the checks of leg i pass and its invocation fails (processor.rs:62-143)
PsInvokeFails ==
    /\ pc = "ps_leg"
    /\ i < swap_info_len
    /\ LegCheck(i) = "Ok"
    /\ swaps_invoked' = Append(swaps_invoked, Invoked(i, "InvokeError"))
    /\ swap_result' = [err |-> "InvokeError"]
    /\ pc' = "ps_done"
    /\ UNCHANGED <<partition, i, j, account_infos>>
    /\ UNCHANGED <<fdVars, ipVars, csVars, moVars, esVars, ooVars, epVars>>

\* the loop is over (processor.rs:61, 145)
PsReturn ==
    /\ pc = "ps_leg"
    /\ i >= swap_info_len
    /\ swap_result' = [err |-> "Ok"]
    /\ pc' = "ps_done"
    /\ UNCHANGED <<partition, i, j, account_infos, swaps_invoked>>
    /\ UNCHANGED <<fdVars, ipVars, csVars, moVars, esVars, ooVars, epVars>>

NextPS ==
    \/ PsUsersShort \/ PsUsers \/ PsCheckFails \/ PsInvoke
    \/ PsInvokeFails \/ PsReturn

SpecPS == InitPS /\ [][NextPS]_vars

\* the checks the leg's accounts must pass, one by one
ChecksPass(n) ==
    LET acc == LegAccounts(n)
        pool == acc[1].swap
    IN  /\ Len(acc) = 7
        /\ acc[1].owner = "program_id"
        /\ pool.ok /\ pool.authority.ok
        /\ acc[2].key = pool.authority.key
        /\ acc[3].key \in {pool.token_a_account, pool.token_b_account}
        /\ acc[4].key \in {pool.token_a_account, pool.token_b_account}
        /\ acc[3].key # acc[4].key
        /\ acc[3].key # account_infos[2].key
        /\ acc[5].key = pool.pool_mint
        /\ acc[6].key = pool.pool_fee_account
        /\ acc[7].key = pool.token_program_id

\* C22: the legs are invoked in index order, leg n with data[n]; a leg is
\* invoked only if its checks pass and every earlier leg was invoked
\* successfully; an error returned is that of the first leg whose check or
\* invocation failed, after which nothing is invoked; Ok is returned only
\* after all swap_info_len legs were invoked successfully.
C22_LegsInOrder ==
    /\ \A k \in 1 .. Len(swaps_invoked) :
          /\ swaps_invoked[k].leg = k - 1
          /\ swaps_invoked[k].swap = data[k]
          /\ ChecksPass(k - 1)
          /\ \A e \in 1 .. k - 1 : swaps_invoked[e].res = "Ok"
    /\ Len(swaps_invoked) <= swap_info_len
    /\ pc = "ps_done" =>
          LET n == Len(swaps_invoked)
          IN  IF swap_result.err = "Ok"
                 THEN /\ n = swap_info_len
                      /\ \A k \in 1 .. n : swaps_invoked[k].res = "Ok"
                 ELSE \/ /\ n >= 1
                         /\ swaps_invoked[n].res = swap_result.err
                         /\ swaps_invoked[n].res # "Ok"
                      \/ /\ \A k \in 1 .. n : swaps_invoked[k].res = "Ok"
                         /\ n < swap_info_len => ~ChecksPass(n)
                         /\ n = swap_info_len => Len(account_infos) < 3

C22_Witness ==
    /\ pc = "ps_done"
    /\ swap_info_len = MaxSwaps
    /\ Len(swaps_invoked) = MaxSwaps - 1
    /\ swap_result.err = "InvalidInput"
    /\ data[1] # data[2]

\* the stepwise run returns what the composed function returns
FdStepsAgree ==
    pc = "fd_done" => distribution = find_distribution(partition, amounts)

====
